---- MODULE Spec2Model ----
(***************************************************************************)
(* Model of gtts (src/main.go): splitText, the byte-budgeted, UTF-8 aware  *)
(* text splitter with its punctuation search findSplitPoint, and the       *)
(* synthesis loop of main that consumes the fragments.                     *)
(*                                                                         *)
(* A text is a sequence of bytes (integers 0..255).  Offsets are 0-based   *)
(* as in the Go source; the byte at Go offset i is text[i+1].              *)
(***************************************************************************)
EXTENDS Integers, Sequences, FiniteSets, TLC

VARIABLES
    text,            \* inputText / tempBytes: the input bytes
    maxSize,         \* the maxSize argument of splitText
    pc,              \* position of the program
    startIndex,      \* splitText: cursor
    chunks,          \* splitText: chunks, then main: textChunks
    prevStart,       \* startIndex at the beginning of the latest iteration
    iter,            \* branch the latest iteration took: "none", "last", "cut"
    potentialChunk,  \* splitText: potentialChunk of the latest "cut" iteration
    splitPoint,      \* splitText: splitPoint of the latest "cut" iteration
    i,               \* main: number of fragments the synthesis loop has handled
    requests,        \* texts sent to SynthesizeSpeech, in order of the calls
    responses,       \* outcome of each call: [ok, audio]
    outputFile,      \* bytes written to the output file
    totalAudioSize   \* main: totalAudioSize

vars == <<text, maxSize, pc, startIndex, chunks, prevStart, iter,
          potentialChunk, splitPoint, i, requests, responses, outputFile,
          totalAudioSize>>

splitVars == <<startIndex, chunks, prevStart, iter, potentialChunk, splitPoint>>
mainVars == <<i, requests, responses, outputFile, totalAudioSize>>

----------------------------------------------------------------------------
(* Program constants *)

LookBack == 100        \* lookBack := 100
NearEnd == 150         \* len(s)-byteIdx < 150
ShortChunk == 100      \* len(potentialChunk) < 100
MainMaxSize == 200     \* splitText(inputText, 200)

(* Bounds of the model *)

MaxChars == 4          \* short inputs: at most this many characters
MaxSmallSize == 4      \* short inputs: maxSize ranges over 1..MaxSmallSize

----------------------------------------------------------------------------
(* Bytes of the characters used *)

NL == <<10>>
DOT == <<46>>
BANG == <<33>>
QM == <<63>>
COMMA == <<44>>
SEMI == <<59>>
FDOT == <<227, 128, 130>>      \* U+3002
FBANG == <<239, 188, 129>>     \* U+FF01
FQM == <<239, 188, 159>>       \* U+FF1F
FCOMMA == <<239, 188, 140>>    \* U+FF0C
FSEMI == <<239, 188, 155>>     \* U+FF1B
LetterA == <<97>>
Zhong == <<228, 184, 173>>     \* U+4E2D
Stray == <<128>>               \* a continuation byte on its own (ill-formed)

StrongTerminators == <<NL, FDOT, FBANG, FQM, DOT, BANG, QM>>
ClauseSeparators == <<FCOMMA, FSEMI, COMMA, SEMI>>

Range(f) == {f[k] : k \in DOMAIN f}

RECURSIVE Flatten(_)
Flatten(ss) == IF ss = <<>> THEN <<>> ELSE Head(ss) \o Flatten(Tail(ss))

\* n copies of the byte sequence c.
Repeat(c, n) == [k \in 1..(n * Len(c)) |-> c[((k - 1) % Len(c)) + 1]]

----------------------------------------------------------------------------
(* unicode/utf8 *)

\* utf8.RuneStart: b&0xC0 != 0x80
RuneStart(b) == ~(b >= 128 /\ b <= 191)

\* Size returned by utf8.DecodeRune(b[at:]); 1 for an invalid encoding, 0 when
\* the slice is empty.
DecodeRuneSize(b, at) ==
    LET n == Len(b) - at
        p0 == b[at + 1]
        sz == IF p0 >= 194 /\ p0 <= 223 THEN 2
              ELSE IF p0 >= 224 /\ p0 <= 239 THEN 3
              ELSE IF p0 >= 240 /\ p0 <= 244 THEN 4
              ELSE 1
        lo == IF p0 = 224 THEN 160 ELSE IF p0 = 240 THEN 144 ELSE 128
        hi == IF p0 = 237 THEN 159 ELSE IF p0 = 244 THEN 143 ELSE 191
        cont(k) == b[at + 1 + k] >= 128 /\ b[at + 1 + k] <= 191
    IN  IF n < 1 THEN 0
        ELSE IF sz = 1 THEN 1
        ELSE IF n < sz THEN 1
        ELSE IF b[at + 2] < lo \/ hi < b[at + 2] THEN 1
        ELSE IF sz <= 2 THEN 2
        ELSE IF ~cont(2) THEN 1
        ELSE IF sz <= 3 THEN 3
        ELSE IF ~cont(3) THEN 1
        ELSE 4

\* The bytes b[at:] begin with a valid encoding of one character.
ValidRuneAt(b, at) ==
    /\ at < Len(b)
    /\ \/ b[at + 1] < 128
       \/ DecodeRuneSize(b, at) > 1

----------------------------------------------------------------------------
(* strings.LastIndex *)

\* Offset of the last occurrence of sep in s, -1 with none.
LastIndex(s, sep) ==
    LET hits == {k \in 0..(Len(s) - Len(sep)) :
                    SubSeq(s, k + 1, k + Len(sep)) = sep}
    IN  IF hits = {} THEN -1
        ELSE CHOOSE k \in hits : \A j \in hits : j <= k

----------------------------------------------------------------------------
(* main.go *)

max(a, b) == IF a > b THEN a ELSE b

\* The condition under which a found mark replaces bestSplit.
TakeMark(slen, byteIdx, bestSplit) ==
    slen - byteIdx < NearEnd \/ bestSplit = -1

\* One for-loop of findSplitPoint over a list of marks: the value of
\* bestSplit after the first n marks of puncs, from the initial value init.
RECURSIVE ScanUpTo(_, _, _, _, _, _)
ScanUpTo(slen, sub, lookBack, puncs, n, init) ==
    IF n = 0 THEN init
    ELSE LET bestSplit == ScanUpTo(slen, sub, lookBack, puncs, n - 1, init)
             punc == puncs[n]
             idx == LastIndex(sub, punc)
             byteIdx == slen - lookBack + idx + Len(punc)
         IN  IF idx # -1 /\ TakeMark(slen, byteIdx, bestSplit)
             THEN byteIdx ELSE bestSplit

ScanMarks(slen, sub, lookBack, puncs, bestSplit) ==
    ScanUpTo(slen, sub, lookBack, puncs, Len(puncs), bestSplit)

\* Variant: the second loop runs whatever the first found.
ScanClauseAlways(slen, sub, lookBack, bestSplit) ==
    ScanMarks(slen, sub, lookBack, ClauseSeparators, bestSplit)

\* The second loop runs only when the first found nothing.
ScanClause(slen, sub, lookBack, bestSplit) ==
    IF bestSplit = -1
    THEN ScanMarks(slen, sub, lookBack, ClauseSeparators, -1)
    ELSE bestSplit

WindowLen(s) == IF Len(s) < LookBack THEN Len(s) ELSE LookBack

findSplitPoint(s) ==
    LET lookBack == WindowLen(s)
        sub == SubSeq(s, Len(s) - lookBack + 1, Len(s))
        strong == ScanMarks(Len(s), sub, lookBack, StrongTerminators, -1)
        bestSplit == ScanClause(Len(s), sub, lookBack, strong)
    IN  IF bestSplit # -1 THEN bestSplit ELSE Len(s)

\* Variant: a budget one byte too large.
BudgetEndOver(start, size) == start + size + 1

\* endIndex := startIndex + maxSize
BudgetEnd(start, size) == start + size

\* Variant: a budget ending exactly at the end of the text is not clamped.
ReachesEndStrict(e, len) == e > len

\* The test that takes the clamping branch.
ReachesEnd(e, len) == e >= len

\* Variant: endIndex is not stepped back.
StepBackNone(b, start, e) == e

\* The loop that steps endIndex back to a rune start; -1 stands for the
\* run-time panic of an index out of range.
RECURSIVE StepBack(_, _, _)
StepBack(b, start, e) ==
    IF e > start
    THEN IF e >= Len(b) THEN -1
         ELSE IF ~RuneStart(b[e + 1]) THEN StepBack(b, start, e - 1)
         ELSE e
    ELSE e

\* Variant: no forced advance.
ForceAdvanceNone(b, start, e) == e

\* The forced advance when endIndex fell back to startIndex.
ForceAdvance(b, start, e) ==
    IF e <= start
    THEN LET runeSize == DecodeRuneSize(b, start)
             forced == start + max(runeSize, 1)
         IN  IF forced > Len(b) THEN Len(b) ELSE forced
    ELSE e

\* Variant: any split point inside the fragment is taken.
AcceptSplitAnywhere(sp, clen) == sp > 0 /\ sp < clen

\* The test that lets splitPoint replace the end of potentialChunk.
AcceptSplit(sp, clen) ==
    /\ sp > 0
    /\ sp < clen
    /\ (sp > clen \div 2 \/ clen < ShortChunk)

\* Variant: the slice starts one byte late.
SliceLate(b, from, to) == SubSeq(b, from + 2, to)

\* string(tempBytes[from:to])
Slice(b, from, to) == SubSeq(b, from + 1, to)

\* One iteration of the for-loop of splitText.
SplitStep ==
    /\ pc = "split"
    /\ startIndex < Len(text)
    /\ LET budget == BudgetEnd(startIndex, maxSize)
       IN  IF ReachesEnd(budget, Len(text))
           THEN /\ chunks' = Append(chunks, Slice(text, startIndex, Len(text)))
                /\ startIndex' = Len(text)
                /\ iter' = "last"
                /\ pc' = pc
                /\ UNCHANGED <<potentialChunk, splitPoint>>
           ELSE LET back == StepBack(text, startIndex, budget)
                IN  IF back = -1
                    THEN /\ pc' = "panic"
                         /\ UNCHANGED <<startIndex, chunks, iter,
                                        potentialChunk, splitPoint>>
                    ELSE LET aligned == ForceAdvance(text, startIndex, back)
                             chunk == Slice(text, startIndex, aligned)
                             sp == findSplitPoint(chunk)
                             endIndex == IF AcceptSplit(sp, Len(chunk))
                                         THEN startIndex + sp
                                         ELSE aligned
                         IN  /\ potentialChunk' = chunk
                             /\ splitPoint' = sp
                             /\ chunks' = Append(chunks,
                                             Slice(text, startIndex, endIndex))
                             /\ startIndex' = endIndex
                             /\ iter' = "cut"
                             /\ pc' = pc
    /\ prevStart' = startIndex
    /\ UNCHANGED <<text, maxSize>>
    /\ UNCHANGED mainVars

\* The loop condition fails: splitText returns chunks.
SplitReturn ==
    /\ pc = "split"
    /\ ~(startIndex < Len(text))
    /\ pc' = "returned"
    /\ UNCHANGED <<text, maxSize>>
    /\ UNCHANGED splitVars
    /\ UNCHANGED mainVars

----------------------------------------------------------------------------
(* Inputs *)

Units == {LetterA, DOT, QM, COMMA, Zhong, FDOT, Stray}

RECURSIVE TextsOfLen(_)
TextsOfLen(n) ==
    IF n = 0 THEN {<<>>}
    ELSE {t \o u : t \in TextsOfLen(n - 1), u \in Units}

ShortInputs ==
    {<<t, m>> : t \in UNION {TextsOfLen(n) : n \in 0..MaxChars},
                m \in 1..MaxSmallSize}

\* Long inputs: filler, a mark, filler, a mark, filler.
Fillers == {LetterA, Zhong}
Marks == {<<>>, DOT, QM, COMMA, FDOT}
Gap1 == {10, 16, 20, 60, 80}
Gap2 == {0, 15, 50}
Gap3 == {30, 100}
LongSizes == {150, MainMaxSize}

LongText(c, n1, p, n2, q, n3) ==
    Repeat(c, n1) \o p \o Repeat(c, n2) \o q \o Repeat(c, n3)

LongInputs ==
    {<<LongText(c, n1, p, n2, q, n3), m>> :
        c \in Fillers, n1 \in Gap1, p \in Marks, n2 \in Gap2, q \in Marks,
        n3 \in Gap3, m \in LongSizes}

Inputs == ShortInputs \cup LongInputs

InitSplit ==
    /\ startIndex = 0
    /\ chunks = <<>>
    /\ prevStart = 0
    /\ iter = "none"
    /\ potentialChunk = <<>>
    /\ splitPoint = 0

InitMainVars ==
    /\ i = 0
    /\ requests = <<>>
    /\ responses = <<>>
    /\ outputFile = <<>>
    /\ totalAudioSize = 0

\* splitText as a function of its arguments.
Init ==
    /\ \E inp \in Inputs : text = inp[1] /\ maxSize = inp[2]
    /\ pc = "split"
    /\ InitSplit
    /\ InitMainVars

Next == SplitStep \/ SplitReturn

Spec == Init /\ [][Next]_vars

----------------------------------------------------------------------------
(* main *)

\* Audio payloads the synthesis service may return.
Audios == {<<1>>, <<2, 3>>}

\* Input files of the runs of main.
MainTexts ==
    {<<>>} \cup
    {LongText(c, 60, p, 50, q, 100) : c \in Fillers, p \in {<<>>, DOT},
                                       q \in {<<>>, QM}}

\* Reading config.yaml and the input file and creating the client succeed.
LoadOk ==
    /\ pc = "load"
    /\ pc' = "split"
    /\ UNCHANGED <<text, maxSize>>
    /\ UNCHANGED splitVars
    /\ UNCHANGED mainVars

\* One of them fails: log.Fatalf.
LoadFail ==
    /\ pc = "load"
    /\ pc' = "fatal"
    /\ UNCHANGED <<text, maxSize>>
    /\ UNCHANGED splitVars
    /\ UNCHANGED mainVars

\* os.Create of the output file.
CreateOutput ==
    /\ pc = "returned"
    /\ pc' \in {"synth", "fatal"}
    /\ UNCHANGED <<text, maxSize>>
    /\ UNCHANGED splitVars
    /\ UNCHANGED mainVars

\* Variant: a synthesis error ends the loop (break).
AfterErrorBreak(n, total) == total

\* The loop index after a synthesis error: continue.
AfterError(n, total) == n + 1

\* SynthesizeSpeech returns audio and the write succeeds.
SynthesizeOk ==
    /\ pc = "synth"
    /\ i < Len(chunks)
    /\ \E audio \in Audios :
          /\ requests' = Append(requests, chunks[i + 1])
          /\ responses' = Append(responses, [ok |-> TRUE, audio |-> audio])
          /\ outputFile' = outputFile \o audio
          /\ totalAudioSize' = totalAudioSize + Len(audio)
    /\ i' = i + 1
    /\ pc' = pc
    /\ UNCHANGED <<text, maxSize>>
    /\ UNCHANGED splitVars

\* SynthesizeSpeech returns an error: the fragment is skipped.
SynthesizeErr ==
    /\ pc = "synth"
    /\ i < Len(chunks)
    /\ requests' = Append(requests, chunks[i + 1])
    /\ responses' = Append(responses, [ok |-> FALSE, audio |-> <<>>])
    /\ i' = AfterError(i, Len(chunks))
    /\ pc' = pc
    /\ UNCHANGED <<text, maxSize, outputFile, totalAudioSize>>
    /\ UNCHANGED splitVars

\* SynthesizeSpeech returns audio and the write fails after n bytes: log.Fatalf.
WriteFail ==
    /\ pc = "synth"
    /\ i < Len(chunks)
    /\ \E audio \in Audios : \E n \in 0..Len(audio) :
          /\ requests' = Append(requests, chunks[i + 1])
          /\ responses' = Append(responses, [ok |-> TRUE, audio |-> audio])
          /\ outputFile' = outputFile \o SubSeq(audio, 1, n)
    /\ pc' = "fatal"
    /\ UNCHANGED <<text, maxSize, i, totalAudioSize>>
    /\ UNCHANGED splitVars

\* The range loop is over.
MainFinish ==
    /\ pc = "synth"
    /\ ~(i < Len(chunks))
    /\ pc' = "finished"
    /\ UNCHANGED <<text, maxSize>>
    /\ UNCHANGED splitVars
    /\ UNCHANGED mainVars

MainInit ==
    /\ text \in MainTexts
    /\ maxSize = MainMaxSize
    /\ pc = "load"
    /\ InitSplit
    /\ InitMainVars

MainNext ==
    \/ LoadOk
    \/ LoadFail
    \/ SplitStep
    \/ SplitReturn
    \/ CreateOutput
    \/ SynthesizeOk
    \/ SynthesizeErr
    \/ WriteFail
    \/ MainFinish

MainSpec == MainInit /\ [][MainNext]_vars

----------------------------------------------------------------------------
(* Notions the properties are stated with *)

Max(S) == CHOOSE x \in S : \A y \in S : y <= x

\* b is well-formed UTF-8: it does not begin inside a character, and at every
\* byte that starts a character a valid encoding is decoded that ends where
\* the next character starts or at the end of b.
WellFormed(b) ==
    /\ b # <<>> => RuneStart(b[1])
    /\ \A k \in 0..(Len(b) - 1) :
          RuneStart(b[k + 1]) =>
              /\ ValidRuneAt(b, k)
              /\ \/ k + DecodeRuneSize(b, k) = Len(b)
                 \/ RuneStart(b[k + DecodeRuneSize(b, k) + 1])

\* Offsets at which a character of a well-formed b starts, and Len(b).
CharStarts(b) == {k \in 0..(Len(b) - 1) : RuneStart(b[k + 1])} \cup {Len(b)}

\* f is exactly one encoded character.
OneChar(f) == ValidRuneAt(f, 0) /\ DecodeRuneSize(f, 0) = Len(f)

\* Offsets right after the occurrences, starting at or after from, of a mark
\* of the list marks in s.
MarkEnds(s, from, marks) ==
    {e \in 1..Len(s) : \E m \in Range(marks) :
        /\ e - Len(m) >= from
        /\ SubSeq(s, e - Len(m) + 1, e) = m}

\* The byte window of findSplitPoint starts here.
WindowStart(s) == Len(s) - WindowLen(s)

StrongEnds == MarkEnds(potentialChunk, WindowStart(potentialChunk),
                       StrongTerminators)
ClauseEnds == MarkEnds(potentialChunk, WindowStart(potentialChunk),
                       ClauseSeparators)

\* Length of the fragment the latest iteration emitted.
EmittedLen == startIndex - prevStart

\* The latest iteration moved the end to the punctuation split point.
Moved == iter = "cut" /\ EmittedLen # Len(potentialChunk)

----------------------------------------------------------------------------
(* splitText *)

\* C1: the fragments emitted so far, concatenated in order, are the input up
\* to the cursor, and on return they are the whole input byte for byte.
C1_RoundTrip ==
    /\ Flatten(chunks) = SubSeq(text, 1, startIndex)
    /\ pc = "returned" => Flatten(chunks) = text

C1_Witness ==
    /\ pc = "returned"
    /\ Len(chunks) >= 3
    /\ \E k \in DOMAIN chunks : Len(chunks[k]) < maxSize /\ k < Len(chunks)

\* C2: for well-formed input every fragment is at most maxSize bytes long, or
\* is exactly one character that is itself longer than maxSize.
C2_SizeBound ==
    WellFormed(text) =>
        \A k \in DOMAIN chunks :
            \/ Len(chunks[k]) <= maxSize
            \/ OneChar(chunks[k]) /\ Len(chunks[k]) > maxSize

C2_Witness ==
    /\ WellFormed(text)
    /\ Moved
    /\ \E k \in DOMAIN chunks : Len(chunks[k]) > maxSize

\* C3: for well-formed input the cursor, which is every fragment boundary in
\* turn, is always at the start of a character or at the end of the text.
C3_BoundarySafe ==
    WellFormed(text) => startIndex \in CharStarts(text)

C3_Witness ==
    /\ WellFormed(text)
    /\ Moved
    /\ Len(potentialChunk) > LookBack
    /\ WindowStart(potentialChunk) \notin CharStarts(potentialChunk)

\* C4: every fragment has at least one byte, each iteration moves the end
\* strictly beyond the start, and an empty input gives no fragment.
C4_NonEmpty ==
    /\ \A k \in DOMAIN chunks : Len(chunks[k]) >= 1
    /\ iter # "none" => startIndex > prevStart
    /\ pc = "returned" /\ text = <<>> => chunks = <<>>

C4_Witness ==
    /\ Moved
    /\ EmittedLen = 1
    /\ Len(potentialChunk) = maxSize

\* C5: splitText is total.  Every step taken while the loop runs is either
\* an iteration that moves the cursor strictly forward, never beyond the end
\* of the text and without an index out of range, or the return, taken
\* exactly when the cursor is at the end of the text.  The cursor is thus a
\* variant bounded by len(text): the loop ends after at most len(text)
\* iterations.
C5_Total ==
    [][pc = "split" =>
          \/ /\ pc' = "split"
             /\ startIndex < startIndex'
             /\ startIndex' <= Len(text)
          \/ /\ pc' = "returned"
             /\ startIndex = Len(text)]_vars

C5_Witness ==
    /\ pc = "returned"
    /\ \E k \in DOMAIN chunks : Len(chunks[k]) > maxSize
    /\ Len(chunks) >= 3

\* C7: the split point found is right after the rightmost mark, in the
\* window, of the tier it belongs to.
C7_Rightmost ==
    iter = "cut" =>
        /\ splitPoint \in StrongEnds => splitPoint = Max(StrongEnds)
        /\ splitPoint \in ClauseEnds => splitPoint = Max(ClauseEnds)

\* C8: with a strong terminator in the window the split point is right after
\* a strong terminator; it is after a clause separator only with none.
C8_StrongFirst ==
    iter = "cut" =>
        /\ StrongEnds # {} => splitPoint \in StrongEnds
        /\ splitPoint \in ClauseEnds => StrongEnds = {}
        /\ StrongEnds = {} /\ ClauseEnds # {} => splitPoint \in ClauseEnds

C8_Witness ==
    /\ iter = "cut"
    /\ StrongEnds # {}
    /\ ClauseEnds # {}
    /\ Max(ClauseEnds) > Max(StrongEnds)
    /\ splitPoint \in StrongEnds

NoMarks(s) ==
    MarkEnds(s, 0, StrongTerminators) \cup MarkEnds(s, 0, ClauseSeparators) = {}

\* C9: the end moves to the split point only when that point is in the back
\* half of the provisional fragment or the fragment is shorter than 100
\* bytes; otherwise, and with no mark in the window, the provisional end
\* stays, and plain ASCII text without marks is cut every maxSize bytes.
C9_AcceptRule ==
    iter = "cut" =>
        LET clen == Len(potentialChunk)
        IN  /\ EmittedLen \in {clen, splitPoint}
            /\ EmittedLen # clen =>
                  2 * splitPoint > clen \/ clen < ShortChunk
            /\ StrongEnds \cup ClauseEnds = {} => EmittedLen = clen
            /\ NoMarks(text) /\ (\A k \in DOMAIN text : text[k] < 128) =>
                  EmittedLen = maxSize

C9_Witness ==
    /\ iter = "cut"
    /\ Len(potentialChunk) >= ShortChunk
    /\ splitPoint < Len(potentialChunk)
    /\ 2 * splitPoint <= Len(potentialChunk)
    /\ EmittedLen = Len(potentialChunk)

\* Offset in s where its last LookBack characters start (0 with fewer).
CharWindowStart(s) ==
    LET starts == CharStarts(s) \ {Len(s)}
    IN  IF Cardinality(starts) <= LookBack THEN 0
        ELSE CHOOSE x \in starts :
                Cardinality({y \in starts : y >= x}) = LookBack

\* C10: a mark within the last 100 characters of the provisional fragment is
\* found by the search, so the split point is right after such a mark.
C10_CharWindow ==
    iter = "cut" /\ WellFormed(text) =>
        LET from == CharWindowStart(potentialChunk)
            ends == MarkEnds(potentialChunk, from, StrongTerminators)
                      \cup MarkEnds(potentialChunk, from, ClauseSeparators)
        IN  ends # {} => splitPoint \in ends

----------------------------------------------------------------------------
(* main *)

RECURSIVE AudioOf(_)
AudioOf(rs) ==
    IF rs = <<>> THEN <<>>
    ELSE (IF Head(rs).ok THEN Head(rs).audio ELSE <<>>) \o AudioOf(Tail(rs))

\* C6: the fragments are submitted in order, a failed synthesis skips only
\* its fragment, and a run that ends without a failed write has written the
\* audio of the successful fragments in order.
C6_SkipAndConcat ==
    /\ requests = SubSeq(chunks, 1, Len(requests))
    /\ pc = "finished" =>
          /\ requests = chunks
          /\ outputFile = AudioOf(responses)
          /\ totalAudioSize = Len(outputFile)

C6_Witness ==
    /\ pc = "finished"
    /\ Len(chunks) >= 3
    /\ ~responses[1].ok
    /\ responses[2].ok
    /\ ~responses[3].ok
    /\ outputFile # <<>>

====
